---- MODULE Spec2Model ----
(***************************************************************************)
(* A model of the raplcap MSR backend (src/msr/raplcap-msr.c): the session *)
(* life cycle (raplcap_init / raplcap_destroy), the four zone operations   *)
(* and the bit-level codec of the power-limit registers.                   *)
(*                                                                         *)
(* Representation                                                          *)
(*   - a 64-bit register word (uint64_t) is the set of the positions of    *)
(*     its 1 bits, a subset of 0..63;                                      *)
(*   - a double is a record [n, d, e] standing for (n / d) * 2^e, so that  *)
(*     the divisions and the logarithm of the codec are computed exactly   *)
(*     (the inputs used here are exact in binary floating point or are     *)
(*     produced by the same expression the code divides by);               *)
(*   - a file descriptor is a natural number; fdtab maps every descriptor  *)
(*     that is open in the process to what it is open on.                  *)
(***************************************************************************)
EXTENDS Integers, Sequences, FiniteSets, TLC

\* ------------------------------------------------------------ constants
MSR_RAPL_POWER_UNIT == 1542
MSR_PKG_POWER_LIMIT == 1552
MSR_PP0_POWER_LIMIT == 1592
MSR_PP1_POWER_LIMIT == 1600
MSR_DRAM_POWER_LIMIT == 1560
MSR_PLATFORM_POWER_LIMIT == 1628

\* The largest socket count count_sockets() reports in this model.
MaxSockets == 2
MaxRecords == 4

Zones == {"PACKAGE", "CORE", "UNCORE", "DRAM", "PSYS"}
ClassA == {"PACKAGE", "PSYS"}
ClassB == {"CORE", "UNCORE", "DRAM"}
\* "INVALID" stands for any raplcap_zone value outside the enumeration.
ZoneArgs == Zones \cup {"INVALID"}
LimitRegs == {MSR_PKG_POWER_LIMIT, MSR_PP0_POWER_LIMIT, MSR_PP1_POWER_LIMIT,
              MSR_DRAM_POWER_LIMIT, MSR_PLATFORM_POWER_LIMIT}
Regs == LimitRegs \cup {MSR_RAPL_POWER_UNIT}

\* ------------------------------------------------------------ arithmetic
RECURSIVE Pow2(_)
Pow2(k) == IF k <= 0 THEN 1 ELSE 2 * Pow2(k - 1)

\* The double (n / d) * 2^e.
Dbl(n, d, e) == [n |-> n, d |-> d, e |-> e]

\* a * 2^k < b, for a, b >= 0, without leaving the 32-bit integers.
RECURSIVE ScaledLess(_, _, _)
ScaledLess(a, b, k) ==
  IF k = 0 THEN a < b
  ELSE IF k > 0 THEN (IF a >= b THEN FALSE ELSE ScaledLess(2 * a, b, k - 1))
  ELSE (IF a < b THEN TRUE ELSE ScaledLess(a, 2 * b, k + 1))

\* x < y and x <= y on non-negative doubles.
DblLess(x, y) == ScaledLess(x.n * y.d, y.n * x.d, x.e - y.e)
DblLeq(x, y) == ~DblLess(y, x)
DblPositive(x) == x.n > 0

\* ------------------------------------------------------------ bit fields
RECURSIVE BitsValue(_, _, _)
BitsValue(w, first, last) ==
  IF first > last THEN 0
  ELSE (IF last \in w THEN Pow2(last - first) ELSE 0) + BitsValue(w, first, last - 1)

\* The word whose low 32 bits are those of the number v (v < 2^31).
WordOf(v) == {i \in 0..30 : (v \div Pow2(i)) % 2 = 1}

get_bits(msrval, first, last) == BitsValue(msrval, first, last)

\* replace_bits with a mask one bit too wide.
replace_bits_wide(msrval, data, first, last) ==
  (msrval \ (first..(last + 1)))
    \cup {i \in first..(last + 1) : (data \div Pow2(i - first)) % 2 = 1}

replace_bits(msrval, data, first, last) ==
  (msrval \ (first..last))
    \cup {i \in first..last : (data \div Pow2(i - first)) % 2 = 1}

is_pkg_platform_enabled(msrval) ==
  IF get_bits(msrval, 15, 15) # 0 /\ get_bits(msrval, 47, 47) # 0 THEN 1 ELSE 0

is_core_uncore_dram_enabled(msrval) == get_bits(msrval, 15, 15)

\* set_pkg_platform_enabled without the short-term enable bit.
set_pkg_platform_enabled_no47(msrval, enabled) ==
  LET set == IF enabled # 0 THEN 1 ELSE 0
      m1 == replace_bits(msrval, set, 15, 15)
      m3 == replace_bits(m1, set, 16, 16)
  IN replace_bits(m3, set, 48, 48)

set_pkg_platform_enabled(msrval, enabled) ==
  LET set == IF enabled # 0 THEN 1 ELSE 0
      m1 == replace_bits(msrval, set, 15, 15)
      m2 == replace_bits(m1, set, 47, 47)
      m3 == replace_bits(m2, set, 16, 16)
  IN replace_bits(m3, set, 48, 48)

\* set_core_uncore_dram_enabled that also writes the short-term bits 47 and 48.
set_core_uncore_dram_enabled_wide(msrval, enabled) ==
  LET set == IF enabled # 0 THEN 1 ELSE 0
      m1 == replace_bits(msrval, set, 15, 15)
      m2 == replace_bits(m1, set, 47, 47)
      m3 == replace_bits(m2, set, 16, 16)
  IN replace_bits(m3, set, 48, 48)

set_core_uncore_dram_enabled(msrval, enabled) ==
  LET set == IF enabled # 0 THEN 1 ELSE 0
      m1 == replace_bits(msrval, set, 15, 15)
  IN replace_bits(m1, set, 16, 16)

\* ------------------------------------------------------------ doubles
DblMul(x, y) == Dbl(x.n * y.n, x.d * y.d, x.e + y.e)
DblDiv(x, y) == Dbl(x.n * y.d, x.d * y.n, x.e - y.e)

\* pow(0.5, k) and pow(2.0, k)
PowHalf(k) == Dbl(1, 1, 0 - k)
PowTwo(k) == Dbl(1, 1, k)

\* The outcomes of converting a double whose integral part t is negative to
\* uint64_t (undefined behaviour), as the targets of the build produce them:
\* saturation to 0 (AArch64 fcvtzu) and the two's complement of t (x86-64
\* cvttsd2si).  Such a value is only ever masked to a field of at most 15
\* bits, so its low 15 bits stand for it.
UndefinedU64(t) == {0, t % 32768}

\* floor(x) for a double x >= 0.
DblFloor(x) ==
  IF x.e >= 0 THEN (x.n * Pow2(x.e)) \div x.d ELSE x.n \div (x.d * Pow2(0 - x.e))

\* (uint64_t) x : truncation toward zero where the result is representable.
DblToU64(x) ==
  IF x.n >= 0 THEN {DblFloor(x)}
  ELSE IF ScaledLess(0 - x.n, x.d, x.e) THEN {0}
  ELSE UndefinedU64(0 - DblFloor(Dbl(0 - x.n, x.d, x.e)))

\* floor(log2(a / b)) for integers a, b > 0.
RECURSIVE FloorLog2(_, _)
FloorLog2(a, b) ==
  IF a >= 2 * b THEN 1 + FloorLog2(a, 2 * b)
  ELSE IF a >= b THEN 0
  ELSE FloorLog2(2 * a, b) - 1

\* log2(a / b) is an integer.
RECURSIVE ExactLog2(_, _)
ExactLog2(a, b) ==
  IF a = b THEN TRUE
  ELSE IF a > b THEN (IF a >= 2 * b THEN ExactLog2(a, 2 * b) ELSE FALSE)
  ELSE (IF b >= 2 * a THEN ExactLog2(2 * a, b) ELSE FALSE)

\* (uint64_t) log2(x) for a double x > 0: the logarithm is truncated toward
\* zero; a logarithm <= -1 has no uint64_t value.
Log2ToU64(x) ==
  LET l == FloorLog2(x.n, x.d) + x.e
  IN IF l >= 0 THEN {l}
     ELSE IF l = -1 /\ ~ExactLog2(x.n, x.d) THEN {0}
     ELSE UndefinedU64(IF ExactLog2(x.n, x.d) THEN l ELSE l + 1)

\* ------------------------------------------------------------ limits
\* A raplcap_limit argument: a null pointer, or a structure.
NullLimit == [null |-> TRUE, watts |-> Dbl(0, 1, 0), seconds |-> Dbl(0, 1, 0)]
Limit(watts, seconds) == [null |-> FALSE, watts |-> watts, seconds |-> seconds]

to_raplcap(seconds, watts) == Limit(watts, seconds)

to_time_window_F(bits) == Dbl(10 + bits, 10, 0)

\* limit_long / limit_short say whether the output pointer is non-null; an
\* output that is not written stays NullLimit.
get_pkg_platform(msrval, state, limit_long, limit_short) ==
  [ret |-> 0,
   long |-> IF limit_long
            THEN to_raplcap(
                   DblMul(DblMul(PowTwo(get_bits(msrval, 17, 21)),
                                 Dbl(4 + get_bits(msrval, 22, 23), 4, 0)),
                          state.time_units),
                   DblMul(state.power_units, Dbl(get_bits(msrval, 0, 14), 1, 0)))
            ELSE NullLimit,
   short |-> IF limit_short
             THEN to_raplcap(
                    DblMul(DblMul(PowTwo(get_bits(msrval, 49, 53)),
                                  Dbl(4 + get_bits(msrval, 54, 55), 4, 0)),
                           state.time_units),
                    DblMul(state.power_units, Dbl(get_bits(msrval, 32, 46), 1, 0)))
             ELSE NullLimit]

get_core_uncore_dram(msrval, state, limit_long) ==
  [ret |-> 0,
   long |-> IF limit_long
            THEN to_raplcap(
                   DblMul(DblMul(PowTwo(get_bits(msrval, 17, 21)),
                                 to_time_window_F(get_bits(msrval, 22, 23))),
                          state.time_units),
                   DblMul(state.power_units, Dbl(get_bits(msrval, 0, 14), 1, 0)))
            ELSE NullLimit,
   short |-> NullLimit]

\* The words set_pkg_platform can return (more than one only where a
\* conversion is undefined).
set_pkg_platform(msrval, state, limit_long, limit_short) ==
  LET m1 == IF ~limit_long.null /\ DblPositive(limit_long.watts)
            THEN {replace_bits(msrval, p, 0, 14) :
                    p \in DblToU64(DblDiv(limit_long.watts, state.power_units))}
            ELSE {msrval}
      m2 == IF ~limit_long.null /\ DblPositive(limit_long.seconds)
            THEN UNION {{replace_bits(m, t, 17, 21) :
                           t \in Log2ToU64(DblDiv(DblMul(Dbl(4, 1, 0), limit_long.seconds),
                                                  DblMul(state.time_units,
                                                         Dbl(get_bits(m, 22, 23) + 4, 1, 0))))} :
                        m \in m1}
            ELSE m1
      m3 == IF ~limit_short.null /\ DblPositive(limit_short.watts)
            THEN UNION {{replace_bits(m, p, 32, 46) :
                           p \in DblToU64(DblDiv(limit_short.watts, state.power_units))} :
                        m \in m2}
            ELSE m2
  IN IF ~limit_short.null /\ DblPositive(limit_short.seconds)
     THEN UNION {{replace_bits(m, t, 49, 53) :
                    t \in Log2ToU64(DblDiv(DblMul(Dbl(4, 1, 0), limit_short.seconds),
                                           DblMul(state.time_units,
                                                  Dbl(get_bits(m, 54, 55) + 4, 1, 0))))} :
                 m \in m3}
     ELSE m3

\* set_core_uncore_dram that writes the power field without testing watts > 0.
set_core_uncore_dram_always(msrval, state, limit_long) ==
  LET m1 == IF ~limit_long.null
            THEN {replace_bits(msrval, p, 0, 14) :
                    p \in DblToU64(DblDiv(limit_long.watts, state.power_units))}
            ELSE {msrval}
  IN IF ~limit_long.null /\ DblPositive(limit_long.seconds)
     THEN UNION {{replace_bits(m, t, 17, 21) :
                    t \in Log2ToU64(DblDiv(limit_long.seconds,
                                           to_time_window_F(get_bits(m, 22, 23))))} :
                 m \in m1}
     ELSE m1

set_core_uncore_dram(msrval, state, limit_long) ==
  LET m1 == IF ~limit_long.null /\ DblPositive(limit_long.watts)
            THEN {replace_bits(msrval, p, 0, 14) :
                    p \in DblToU64(DblDiv(limit_long.watts, state.power_units))}
            ELSE {msrval}
  IN IF ~limit_long.null /\ DblPositive(limit_long.seconds)
     THEN UNION {{replace_bits(m, t, 17, 21) :
                    t \in Log2ToU64(DblDiv(limit_long.seconds,
                                           to_time_window_F(get_bits(m, 22, 23))))} :
                 m \in m1}
     ELSE m1

\* ------------------------------------------------------------ state
VARIABLES
  ctx,      \* the caller's arguments: socket, zone, limit_long, limit_short
  cpuinfo,  \* the topology source: the (physical id, core) records of /proc/cpuinfo
  rc,       \* the raplcap structure: nsockets, and whether state is non-NULL
  state,    \* the raplcap_msr structure rc->state points to: fds, power_units, time_units
  fdtab,    \* the process's open file descriptors and what each is open on
  msr,      \* the registers: msr[s] of socket s, and msr[MaxSockets] the 8-byte
            \* words of the file standard input is open on
  written,  \* the last register write that succeeded in this session
  handles,  \* the descriptors the session's raplcap_init opened
  last,     \* the last library call and what it did and returned
  cfg,      \* the rapl-configure process: its position, its exit status and
            \* the library calls it has made
  thr       \* the threads inside a modifying call: position, operation and
            \* the msrval local of each

vars == <<ctx, cpuinfo, rc, state, fdtab, msr, written, handles, last, cfg, thr>>

Sockets == 0..(MaxSockets - 1)
StdinFile == MaxSockets
Fds == 0..(MaxSockets + 1)

\* What a descriptor is open on: the msr device of a core, or (msr = FALSE)
\* the file standard input was opened on by the parent process.
MsrOf(core) == [msr |-> TRUE, core |-> core]
Stdin == [msr |-> FALSE, core |-> 0]

\* The socket whose registers the device of `core` accesses.
CoreSocket(core) ==
  LET i == CHOOSE i \in 1..Len(cpuinfo) : cpuinfo[i].ok /\ cpuinfo[i].core = core
  IN cpuinfo[i].socket

\* The register file behind an open descriptor.
Dev(tab, fd) == IF tab[fd].msr THEN CoreSocket(tab[fd].core) ELSE StdinFile

NoState == [fds |-> <<>>, power_units |-> Dbl(0, 1, 0), time_units |-> Dbl(0, 1, 0)]
NoWrite == [op |-> "none", enabled |-> 0]
\* No rapl-configure process and no thread inside a call.
NoCfg == [pc |-> "none", ret |-> 0, calls |-> <<>>]
NoThr == <<>>
NoCall ==
  [op |-> "none", ret |-> 0, errno |-> "", enabled |-> 0,
   nreads |-> 0, nwrites |-> 0, rd |-> "none", wr |-> "none", before |-> {}, after |-> {}, wrote |-> FALSE,
   want_long |-> FALSE, want_short |-> FALSE,
   long |-> NullLimit, short |-> NullLimit,
   opened |-> {}, closes |-> <<>>, unit_fd |-> 0 - 1]

\* ------------------------------------------------------------ register access
\* open(2) returns the lowest descriptor that is not open.
LowestFree(tab) ==
  CHOOSE f \in Fds : f \notin DOMAIN tab /\ \A g \in 0..(f - 1) : g \in DOMAIN tab

\* ok: one of the two device files of the core can be opened.
open_msr(tab, core, ok) == IF ok THEN LowestFree(tab) ELSE 0 - 1

\* read_msr_by_offset that does not compare the count pread returns.
read_msr_by_offset_unchecked(tab, fd, off, ok) ==
  IF off < 0 THEN [ret |-> 0 - 1, errno |-> "EINVAL", io |-> 0, data |-> {}]
  ELSE IF fd \notin DOMAIN tab \/ ~ok THEN [ret |-> 0, errno |-> "", io |-> 1, data |-> {}]
  ELSE [ret |-> 0, errno |-> "", io |-> 1, data |-> msr[Dev(tab, fd)][off]]

\* ok: pread transfers 8 bytes.  io counts the calls of pread.
read_msr_by_offset(tab, fd, off, ok) ==
  IF off < 0 THEN [ret |-> 0 - 1, errno |-> "EINVAL", io |-> 0, data |-> {}]
  ELSE IF fd \notin DOMAIN tab THEN [ret |-> 0 - 1, errno |-> "EBADF", io |-> 1, data |-> {}]
  ELSE IF ~ok THEN [ret |-> 0 - 1, errno |-> "EIO", io |-> 1, data |-> {}]
  ELSE [ret |-> 0, errno |-> "", io |-> 1, data |-> msr[Dev(tab, fd)][off]]

\* ok: pwrite transfers 8 bytes.  io counts the calls of pwrite.
write_msr_by_offset(tab, fd, off, data, ok) ==
  IF off < 0 THEN [ret |-> 0 - 1, errno |-> "EINVAL", io |-> 0]
  ELSE IF fd \notin DOMAIN tab THEN [ret |-> 0 - 1, errno |-> "EBADF", io |-> 1]
  ELSE IF ~ok THEN [ret |-> 0 - 1, errno |-> "EIO", io |-> 1]
  ELSE [ret |-> 0, errno |-> "", io |-> 1]

\* zone_to_msr_offset whose default case falls into the package register.
zone_to_msr_offset_nodefault(z) ==
  CASE z = "CORE" -> MSR_PP0_POWER_LIMIT
    [] z = "UNCORE" -> MSR_PP1_POWER_LIMIT
    [] z = "DRAM" -> MSR_DRAM_POWER_LIMIT
    [] z = "PSYS" -> MSR_PLATFORM_POWER_LIMIT
    [] OTHER -> MSR_PKG_POWER_LIMIT

zone_to_msr_offset(z) ==
  CASE z = "PACKAGE" -> MSR_PKG_POWER_LIMIT
    [] z = "CORE" -> MSR_PP0_POWER_LIMIT
    [] z = "UNCORE" -> MSR_PP1_POWER_LIMIT
    [] z = "DRAM" -> MSR_DRAM_POWER_LIMIT
    [] z = "PSYS" -> MSR_PLATFORM_POWER_LIMIT
    [] OTHER -> 0 - 1

\* ------------------------------------------------------------ session
RECURSIVE MaxOf(_)
MaxOf(S) == IF S = {} THEN 0 - 1 ELSE LET x == CHOOSE x \in S : TRUE
                                          m == MaxOf(S \ {x})
                                      IN IF x > m THEN x ELSE m

\* ok: popen succeeds.  The last line of the sorted physical ids, plus one.
count_sockets(ok) ==
  IF ok THEN MaxOf({cpuinfo[i].socket : i \in {j \in 1..Len(cpuinfo) : cpuinfo[j].ok}}) + 1
  ELSE 0

\* The while loop that keeps the first core observed for a socket.
RECURSIVE ScanCpuinfo_first(_, _, _, _)
ScanCpuinfo_first(i, sockets, coreids, coreids_found) ==
  IF i > Len(cpuinfo)
  THEN [ret |-> 0, errno |-> "", coreids |-> coreids, coreids_found |-> coreids_found]
  ELSE IF ~cpuinfo[i].ok
  THEN [ret |-> 0 - 1, errno |-> "ENOENT", coreids |-> coreids, coreids_found |-> coreids_found]
  ELSE IF cpuinfo[i].socket >= sockets
  THEN [ret |-> 0 - 1, errno |-> "EINVAL", coreids |-> coreids, coreids_found |-> coreids_found]
  ELSE LET socket == cpuinfo[i].socket
           core == cpuinfo[i].core
           keep == ~coreids_found[socket]
       IN ScanCpuinfo_first(i + 1, sockets,
                            IF keep THEN [coreids EXCEPT ![socket] = core] ELSE coreids,
                            IF keep THEN [coreids_found EXCEPT ![socket] = TRUE]
                            ELSE coreids_found)

\* The while loop of raplcap_open_msrs over the lines of the topology source.
RECURSIVE ScanCpuinfo(_, _, _, _)
ScanCpuinfo(i, sockets, coreids, coreids_found) ==
  IF i > Len(cpuinfo)
  THEN [ret |-> 0, errno |-> "", coreids |-> coreids, coreids_found |-> coreids_found]
  ELSE IF ~cpuinfo[i].ok
  THEN [ret |-> 0 - 1, errno |-> "ENOENT", coreids |-> coreids, coreids_found |-> coreids_found]
  ELSE IF cpuinfo[i].socket >= sockets
  THEN [ret |-> 0 - 1, errno |-> "EINVAL", coreids |-> coreids, coreids_found |-> coreids_found]
  ELSE LET socket == cpuinfo[i].socket
           core == cpuinfo[i].core
           keep == ~coreids_found[socket] \/ core < coreids[socket]
       IN ScanCpuinfo(i + 1, sockets,
                      IF keep THEN [coreids EXCEPT ![socket] = core] ELSE coreids,
                      IF keep THEN [coreids_found EXCEPT ![socket] = TRUE] ELSE coreids_found)

\* The last loop of raplcap_open_msrs: open the device of each socket's core.
RECURSIVE OpenEach(_, _, _, _, _, _, _)
OpenEach(i, sockets, coreids, fds, tab, opened, openOk) ==
  IF i >= sockets
  THEN [ret |-> 0, errno |-> "", fds |-> fds, tab |-> tab, opened |-> opened]
  ELSE LET fd == open_msr(tab, coreids[i], openOk[i])
       IN IF fd < 0
          THEN [ret |-> 0 - 1, errno |-> "EACCES", fds |-> [fds EXCEPT ![i] = fd],
                tab |-> tab, opened |-> opened]
          ELSE OpenEach(i + 1, sockets, coreids, [fds EXCEPT ![i] = fd],
                        [f \in DOMAIN tab \cup {fd} |->
                           IF f = fd THEN MsrOf(coreids[i]) ELSE tab[f]],
                        opened \cup {fd}, openOk)

\* fds is the calloc'ed array (all zero).  popenOk: popen succeeds.
raplcap_open_msrs(tab, sockets, fds, popenOk, openOk) ==
  IF ~popenOk
  THEN [ret |-> 0, errno |-> "ENOMEM", fds |-> fds, tab |-> tab, opened |-> {}]
  ELSE LET scan == ScanCpuinfo(1, sockets, [i \in 0..(sockets - 1) |-> 0],
                               [i \in 0..(sockets - 1) |-> FALSE])
       IN IF scan.ret # 0
          THEN [ret |-> scan.ret, errno |-> scan.errno, fds |-> fds, tab |-> tab,
                opened |-> {}]
          ELSE IF \E i \in 0..(sockets - 1) : ~scan.coreids_found[i]
          THEN [ret |-> 0 - 1, errno |-> "ENOENT", fds |-> fds, tab |-> tab, opened |-> {}]
          ELSE OpenEach(0, sockets, scan.coreids, fds, tab, {}, openOk)

\* The loop of raplcap_destroy.  closeErr[i] is the errno close sets for the
\* descriptor of socket i ("" when it succeeds); the descriptor is released
\* either way.  closes lists the descriptors close was called on.
RECURSIVE CloseEach(_, _, _, _, _, _, _)
CloseEach(i, nsockets, fds, tab, err_save, closes, closeErr) ==
  IF fds = <<>> \/ i >= nsockets
  THEN [err_save |-> err_save, tab |-> tab, closes |-> closes]
  ELSE IF fds[i] > 0
  THEN LET err == IF fds[i] \in DOMAIN tab THEN closeErr[i] ELSE "EBADF"
       IN CloseEach(i + 1, nsockets, fds,
                    [f \in DOMAIN tab \ {fds[i]} |-> tab[f]],
                    IF err # "" THEN err ELSE err_save,
                    Append(closes, [fd |-> fds[i], err |-> err]),
                    closeErr)
  ELSE CloseEach(i + 1, nsockets, fds, tab, err_save, closes, closeErr)

raplcap_destroy(tab, rcv, st, closeErr) ==
  IF rcv.state
  THEN LET r == CloseEach(0, rcv.nsockets, st.fds, tab, "", <<>>, closeErr)
       IN [ret |-> IF r.err_save # "" THEN 0 - 1 ELSE 0, errno |-> r.err_save,
           rc |-> [rcv EXCEPT !.state = FALSE], state |-> NoState,
           tab |-> r.tab, closes |-> r.closes]
  ELSE [ret |-> 0, errno |-> "", rc |-> rcv, state |-> st, tab |-> tab, closes |-> <<>>]

\* popen1: popen of count_sockets succeeds; mem: which allocation fails
\* ("state", "fds") or "ok"; popen2, openOk, rdOk, closeErr: as above.
raplcap_init(tab, rcv, popen1, mem, popen2, openOk, rdOk, closeErr) ==
  LET nsockets == count_sockets(popen1)
      rc1 == [rcv EXCEPT !.nsockets = nsockets]
      fds0 == IF mem = "fds" THEN <<>> ELSE [i \in 0..(nsockets - 1) |-> 0]
      o == raplcap_open_msrs(tab, nsockets, fds0, popen2, openOk)
      rd == read_msr_by_offset(o.tab, o.fds[0], MSR_RAPL_POWER_UNIT, rdOk)
      fail(err, fds, tab1, opened) ==
        LET d == raplcap_destroy(tab1, [rc1 EXCEPT !.state = TRUE],
                                 [NoState EXCEPT !.fds = fds], closeErr)
        IN [ret |-> 0 - 1, errno |-> err, rc |-> d.rc, state |-> d.state,
            tab |-> d.tab, opened |-> opened, closes |-> d.closes, unit_fd |-> 0 - 1]
  IN IF nsockets = 0 \/ mem = "state"
     THEN [ret |-> 0 - 1, errno |-> "ENOMEM", rc |-> rc1, state |-> NoState,
           tab |-> tab, opened |-> {}, closes |-> <<>>, unit_fd |-> 0 - 1]
     ELSE IF mem = "fds" THEN fail("ENOMEM", <<>>, tab, {})
     ELSE IF o.ret # 0 THEN fail(o.errno, o.fds, o.tab, o.opened)
     ELSE IF rd.ret # 0 THEN fail(rd.errno, o.fds, o.tab, o.opened)
     ELSE [ret |-> 0, errno |-> "", rc |-> [rc1 EXCEPT !.state = TRUE],
           state |-> [fds |-> o.fds,
                      power_units |-> PowHalf(BitsValue(rd.data, 0, 3)),
                      time_units |-> PowHalf(BitsValue(rd.data, 16, 19))],
           tab |-> o.tab, opened |-> o.opened, closes |-> <<>>, unit_fd |-> o.fds[0]]

\* ------------------------------------------------------------ zone operations
\* What a call that fails before any register access returns.
Einval == [NoCall EXCEPT !.ret = 0 - 1, !.errno = "EINVAL"]

\* rdOk: the pread of this call transfers 8 bytes.
raplcap_is_zone_enabled(socket, zone, rdOk) ==
  IF ~rc.state \/ socket >= rc.nsockets THEN Einval
  ELSE LET rd == read_msr_by_offset(fdtab, state.fds[socket], zone_to_msr_offset(zone), rdOk)
           r == [NoCall EXCEPT !.nreads = rd.io, !.before = rd.data]
       IN IF rd.ret # 0 THEN [r EXCEPT !.ret = 0 - 1, !.errno = rd.errno]
          ELSE IF zone \in {"PACKAGE", "PSYS"}
          THEN [r EXCEPT !.ret = is_pkg_platform_enabled(rd.data)]
          ELSE IF zone \in {"CORE", "UNCORE", "DRAM"}
          THEN [r EXCEPT !.ret = is_core_uncore_dram_enabled(rd.data)]
          ELSE [r EXCEPT !.ret = 0 - 1, !.errno = "EINVAL"]

\* rdOk, wrOk: the pread and the pwrite of this call transfer 8 bytes.
raplcap_set_zone_enabled(socket, zone, enabled, rdOk, wrOk) ==
  IF ~rc.state \/ socket >= rc.nsockets THEN Einval
  ELSE LET off == zone_to_msr_offset(zone)
           rd == read_msr_by_offset(fdtab, state.fds[socket], off, rdOk)
           r == [NoCall EXCEPT !.nreads = rd.io, !.before = rd.data, !.enabled = enabled]
           msrval == IF zone \in {"PACKAGE", "PSYS"}
                     THEN set_pkg_platform_enabled(rd.data, enabled)
                     ELSE set_core_uncore_dram_enabled(rd.data, enabled)
           wr == write_msr_by_offset(fdtab, state.fds[socket], off, msrval, wrOk)
       IN IF rd.ret # 0 THEN [r EXCEPT !.ret = 0 - 1, !.errno = rd.errno]
          ELSE IF zone \notin Zones THEN [r EXCEPT !.ret = 0 - 1, !.errno = "EINVAL"]
          ELSE [r EXCEPT !.ret = wr.ret, !.errno = wr.errno, !.nwrites = wr.io,
                         !.after = msrval, !.wrote = (wr.ret = 0)]

\* limit_long, limit_short: whether the output pointers are non-null.
raplcap_get_limits(socket, zone, limit_long, limit_short, rdOk) ==
  IF ~rc.state \/ socket >= rc.nsockets THEN Einval
  ELSE LET rd == read_msr_by_offset(fdtab, state.fds[socket], zone_to_msr_offset(zone), rdOk)
           r == [NoCall EXCEPT !.nreads = rd.io, !.before = rd.data,
                               !.want_long = limit_long, !.want_short = limit_short]
           g == IF zone \in {"PACKAGE", "PSYS"}
                THEN get_pkg_platform(rd.data, state, limit_long, limit_short)
                ELSE get_core_uncore_dram(rd.data, state, limit_long)
       IN IF rd.ret # 0 THEN [r EXCEPT !.ret = 0 - 1, !.errno = rd.errno]
          ELSE IF zone \notin Zones THEN [r EXCEPT !.ret = 0 - 1, !.errno = "EINVAL"]
          ELSE [r EXCEPT !.ret = g.ret, !.long = g.long, !.short = g.short]

\* raplcap_set_limits that encodes both limits for the zones of every class.
raplcap_set_limits_both(socket, zone, limit_long, limit_short, rdOk, wrOk) ==
  IF ~rc.state \/ socket >= rc.nsockets THEN {Einval}
  ELSE LET off == zone_to_msr_offset(zone)
           rd == read_msr_by_offset(fdtab, state.fds[socket], off, rdOk)
           r == [NoCall EXCEPT !.nreads = rd.io, !.before = rd.data]
           words == set_pkg_platform(rd.data, state, limit_long, limit_short)
       IN IF rd.ret # 0 THEN {[r EXCEPT !.ret = 0 - 1, !.errno = rd.errno]}
          ELSE IF zone \notin Zones THEN {[r EXCEPT !.ret = 0 - 1, !.errno = "EINVAL"]}
          ELSE {LET wr == write_msr_by_offset(fdtab, state.fds[socket], off, msrval, wrOk)
                IN [r EXCEPT !.ret = wr.ret, !.errno = wr.errno, !.nwrites = wr.io,
                             !.after = msrval, !.wrote = (wr.ret = 0)] : msrval \in words}

\* The possible results of the call (more than one only where a conversion
\* of set_pkg_platform / set_core_uncore_dram is undefined).
raplcap_set_limits(socket, zone, limit_long, limit_short, rdOk, wrOk) ==
  IF ~rc.state \/ socket >= rc.nsockets THEN {Einval}
  ELSE LET off == zone_to_msr_offset(zone)
           rd == read_msr_by_offset(fdtab, state.fds[socket], off, rdOk)
           r == [NoCall EXCEPT !.nreads = rd.io, !.before = rd.data]
           words == IF zone \in {"PACKAGE", "PSYS"}
                    THEN set_pkg_platform(rd.data, state, limit_long, limit_short)
                    ELSE set_core_uncore_dram(rd.data, state, limit_long)
       IN IF rd.ret # 0 THEN {[r EXCEPT !.ret = 0 - 1, !.errno = rd.errno]}
          ELSE IF zone \notin Zones THEN {[r EXCEPT !.ret = 0 - 1, !.errno = "EINVAL"]}
          ELSE {LET wr == write_msr_by_offset(fdtab, state.fds[socket], off, msrval, wrOk)
                IN [r EXCEPT !.ret = wr.ret, !.errno = wr.errno, !.nwrites = wr.io,
                             !.after = msrval, !.wrote = (wr.ret = 0)] : msrval \in words}

\* ------------------------------------------------------------ inputs
\* Register contents before the session: all zero, all one, and two mixed
\* words with bits in every field and in the reserved ranges.
InitWords ==
  {{}, 0..63,
   {5, 6, 8, 11, 15, 17, 19, 22, 33, 36, 47, 48, 50, 55, 63},
   {0, 14, 16, 21, 23, 24, 31, 32, 46, 49, 53, 54, 56}}

\* MSR_RAPL_POWER_UNIT: 0xA0E03 (power 1/8 W, time 1/1024 s) and 0.
UnitWords == {{0, 1, 9, 10, 11, 17, 19}, {}}

\* Topology sources: n sockets with two cores each, and one where socket 0
\* has no record.
Cpu(socket, core) == [socket |-> socket, core |-> core, ok |-> TRUE]
TableOf(n) == [i \in 1..(2 * n) |-> Cpu((i - 1) % n, (2 * n) - i)]
Tables == {TableOf(n) : n \in 1..MaxSockets} \cup {<<Cpu(1, 3)>>}

\* Requested watts: -1, 0, 1/16, 37.5 and 4097 (more than 15 bits of 1/8 W).
\* Requested seconds: -1, 0, 1/4096 (below every time unit), 3/4, 3 and 8.8.
Watts == {Dbl(0 - 1, 1, 0), Dbl(0, 1, 0), Dbl(1, 16, 0), Dbl(75, 2, 0), Dbl(4097, 1, 0)}
Seconds == {Dbl(0 - 1, 1, 0), Dbl(0, 1, 0), Dbl(1, 4096, 0), Dbl(3, 4, 0), Dbl(3, 1, 0),
            Dbl(11, 10, 3)}
LimitArgs ==
  {NullLimit} \cup {Limit(w, Dbl(0, 1, 0)) : w \in Watts}
    \cup {Limit(Dbl(0 - 1, 1, 0), t) : t \in Seconds}
    \cup {Limit(Dbl(75, 2, 0), Dbl(3, 1, 0)), Limit(Dbl(4097, 1, 0), Dbl(11, 10, 3)),
          Limit(Dbl(1, 16, 0), Dbl(3, 4, 0))}

CloseErrnos == {"", "EIO", "EINTR"}

TypeOK ==
  /\ rc.nsockets \in 0..MaxSockets
  /\ rc.state \in BOOLEAN
  /\ DOMAIN fdtab \subseteq Fds
  /\ DOMAIN msr = 0..MaxSockets

\* The (limit_long, limit_short) arguments of the caller: one of the two
\* null, or both given.
LimitPairs ==
  {<<l, NullLimit>> : l \in LimitArgs} \cup {<<NullLimit, l>> : l \in LimitArgs}
    \cup {<<Limit(Dbl(75, 2, 0), Dbl(3, 1, 0)), s>> :
            s \in {Limit(Dbl(50, 1, 0), Dbl(0, 1, 0)), Limit(Dbl(0, 1, 0), Dbl(1, 128, 0)),
                   Limit(Dbl(4097, 1, 0), Dbl(3, 4, 0))}}
FewPairs == {<<Limit(Dbl(75, 2, 0), Dbl(3, 1, 0)), NullLimit>>}

\* ------------------------------------------------------------ specification
InitWith(sockets, zones, pairs, words, units, tables, stdin, faults) ==
  /\ \E s \in sockets, z \in zones, p \in pairs :
       ctx = [socket |-> s, zone |-> z, limit_long |-> p[1], limit_short |-> p[2],
              faults |-> faults]
  /\ cpuinfo \in tables
  /\ rc = [nsockets |-> 0, state |-> FALSE]
  /\ state = NoState
  /\ fdtab \in {[f \in (IF open THEN {0} ELSE {}) |-> Stdin] : open \in stdin}
  /\ \E w \in words, u \in units :
       msr = [d \in 0..MaxSockets |->
                [r \in Regs |-> IF r = MSR_RAPL_POWER_UNIT THEN u ELSE w]]
  /\ written = NoWrite
  /\ handles = {}
  /\ last = NoCall
  /\ cfg = NoCfg
  /\ thr = NoThr

\* The outcomes of a register access: ctx.faults is "none" on a machine where
\* no system call fails, "io" where pread and pwrite may fail, "all" where
\* every system call and allocation may.
Outcome == IF ctx.faults # "none" THEN BOOLEAN ELSE {TRUE}

\* Every call, on a machine whose register accesses may fail, with valid and
\* invalid socket and zone arguments.
Init ==
  InitWith(0..MaxSockets, ZoneArgs, FewPairs,
           {{0, 14, 16, 21, 23, 24, 31, 32, 46, 49, 53, 54, 56}},
           {{0, 1, 9, 10, 11, 17, 19}}, {TableOf(MaxSockets)}, {TRUE}, "io")

\* The environment of one call of raplcap_init: which system calls fail.
\* Only the first failing open matters (the loop stops there), and close is
\* called only after a failure.
CloseFns == [Sockets -> (IF ctx.faults = "all" THEN CloseErrnos ELSE {""})]
EnvOk ==
  [popen1 |-> TRUE, mem |-> "ok", popen2 |-> TRUE, openOk |-> [s \in Sockets |-> TRUE],
   rdOk |-> TRUE, closeErr |-> [s \in Sockets |-> ""]]
InitEnvs ==
  IF ctx.faults = "all"
  THEN {EnvOk, [EnvOk EXCEPT !.popen1 = FALSE]}
         \cup {[EnvOk EXCEPT !.mem = m] : m \in {"state", "fds"}}
         \cup {[EnvOk EXCEPT !.popen2 = FALSE, !.rdOk = b] : b \in BOOLEAN}
         \cup {[EnvOk EXCEPT !.openOk = [s \in Sockets |-> s # k], !.closeErr = c] :
                 k \in Sockets, c \in CloseFns}
         \cup {[EnvOk EXCEPT !.rdOk = FALSE, !.closeErr = c] : c \in CloseFns}
  ELSE {EnvOk}

RaplcapInit ==
  /\ ~rc.state
  /\ \E e \in InitEnvs :
       LET r == raplcap_init(fdtab, rc, e.popen1, e.mem, e.popen2, e.openOk, e.rdOk,
                             e.closeErr)
       IN /\ rc' = r.rc
          /\ state' = r.state
          /\ fdtab' = r.tab
          /\ handles' = IF r.ret = 0 THEN r.opened ELSE {}
          /\ last' = [NoCall EXCEPT !.op = "init", !.ret = r.ret, !.errno = r.errno,
                                    !.opened = r.opened, !.closes = r.closes,
                                    !.unit_fd = r.unit_fd]
  /\ written' = NoWrite
  /\ UNCHANGED <<ctx, cpuinfo, msr, cfg, thr>>

RaplcapDestroy ==
  /\ \E closeErr \in CloseFns :
       LET r == raplcap_destroy(fdtab, rc, state, closeErr)
       IN /\ rc' = r.rc
          /\ state' = r.state
          /\ fdtab' = r.tab
          /\ last' = [NoCall EXCEPT !.op = "destroy", !.ret = r.ret, !.errno = r.errno,
                                    !.opened = handles, !.closes = r.closes]
  /\ written' = NoWrite
  /\ handles' = {}
  /\ UNCHANGED <<ctx, cpuinfo, msr, cfg, thr>>

\* What the environment did to the accesses of a call: "none" when the call
\* made none, "ok" when 8 bytes were transferred, "fail" otherwise.
Access(r, rdOk, wrOk) ==
  LET open == rc.state /\ ctx.socket < rc.nsockets
                /\ state.fds[ctx.socket] \in DOMAIN fdtab
  IN [r EXCEPT !.rd = IF r.nreads = 0 THEN "none"
                      ELSE IF rdOk /\ open THEN "ok" ELSE "fail",
               !.wr = IF r.nwrites = 0 THEN "none"
                      ELSE IF wrOk /\ open THEN "ok" ELSE "fail"]

IsZoneEnabled ==
  /\ \E rdOk \in Outcome :
       last' = [Access(raplcap_is_zone_enabled(ctx.socket, ctx.zone, rdOk), rdOk, TRUE)
                  EXCEPT !.op = "is_enabled"]
  /\ UNCHANGED <<ctx, cpuinfo, rc, state, fdtab, msr, written, handles, cfg, thr>>

\* The register file after a call: the word is stored when pwrite succeeded.
Store(r) ==
  IF r.wrote
  THEN [msr EXCEPT ![Dev(fdtab, state.fds[ctx.socket])][zone_to_msr_offset(ctx.zone)] = r.after]
  ELSE msr

SetZoneEnabled ==
  /\ \E enabled \in {0, 1}, rdOk \in Outcome, wrOk \in Outcome :
       LET r == raplcap_set_zone_enabled(ctx.socket, ctx.zone, enabled, rdOk, wrOk)
       IN /\ last' = [Access(r, rdOk, wrOk) EXCEPT !.op = "set_enabled"]
          /\ msr' = Store(r)
          /\ written' = IF r.wrote
                        THEN [op |-> "set_enabled", enabled |-> enabled]
                        ELSE written
  /\ UNCHANGED <<ctx, cpuinfo, rc, state, fdtab, handles, cfg, thr>>

GetLimits ==
  /\ \E limit_long \in BOOLEAN, limit_short \in BOOLEAN, rdOk \in Outcome :
       last' = [Access(raplcap_get_limits(ctx.socket, ctx.zone, limit_long, limit_short,
                                          rdOk), rdOk, TRUE)
                  EXCEPT !.op = "get_limits"]
  /\ UNCHANGED <<ctx, cpuinfo, rc, state, fdtab, msr, written, handles, cfg, thr>>

SetLimits ==
  /\ \E rdOk \in Outcome, wrOk \in Outcome :
       \E r \in raplcap_set_limits(ctx.socket, ctx.zone, ctx.limit_long, ctx.limit_short,
                                   rdOk, wrOk) :
          /\ last' = [Access(r, rdOk, wrOk) EXCEPT !.op = "set_limits"]
          /\ msr' = Store(r)
          /\ written' = IF r.wrote
                        THEN [op |-> "set_limits", enabled |-> 0]
                        ELSE written
  /\ UNCHANGED <<ctx, cpuinfo, rc, state, fdtab, handles, cfg, thr>>

Next ==
  \/ RaplcapInit
  \/ RaplcapDestroy
  \/ IsZoneEnabled
  \/ SetZoneEnabled
  \/ GetLimits
  \/ SetLimits

Spec == Init /\ [][Next]_vars

\* The life cycle of sessions alone, on a machine whose system calls may
\* fail, over every topology source, with standard input open or closed.
InitSession ==
  InitWith({0}, {"PACKAGE"}, {<<NullLimit, NullLimit>>},
           {{0, 14, 16, 21, 23, 24, 31, 32, 46, 49, 53, 54, 56}},
           UnitWords, Tables, BOOLEAN, "all")

NextSession ==
  \/ RaplcapInit
  \/ RaplcapDestroy

SpecSession == InitSession /\ [][NextSession]_vars

\* The limit codec on a fault-free machine, over every zone, every valid
\* socket and the full range of limit arguments.
InitLimits ==
  InitWith(Sockets, Zones, LimitPairs, InitWords \ {0..63}, UnitWords, {TableOf(MaxSockets)},
           {TRUE}, "none")

NextLimits ==
  \/ RaplcapInit
  \/ SetLimits
  \/ GetLimits

SpecLimits == InitLimits /\ [][NextLimits]_vars

\* The enable bits on a fault-free machine, over every zone and valid socket.
InitEnable ==
  InitWith(Sockets, Zones, {<<NullLimit, NullLimit>>}, InitWords, UnitWords,
           {TableOf(MaxSockets)}, {TRUE}, "none")

NextEnable ==
  \/ RaplcapInit
  \/ SetZoneEnabled
  \/ IsZoneEnabled

SpecEnable == InitEnable /\ [][NextEnable]_vars

\* Topology discovery alone: raplcap_open_msrs called with an expected socket
\* count on a fault-free machine, over every table of at most MaxRecords
\* records whose physical ids are in 0..MaxSockets and whose core numbers are
\* distinct members of CoreIds.
CoreIds == {0, 1, 4, 5}
DiscoveryTables ==
  UNION {{t \in [1..n -> {Cpu(s, c) : s \in 0..MaxSockets, c \in CoreIds}] :
            \A i, j \in 1..n : i # j => t[i].core # t[j].core} :
         n \in 1..MaxRecords}

InitDiscovery ==
  /\ ctx = [socket |-> 0, zone |-> "PACKAGE", limit_long |-> NullLimit,
            limit_short |-> NullLimit, faults |-> "none"]
  /\ cpuinfo \in DiscoveryTables
  /\ \E n \in 1..MaxSockets : rc = [nsockets |-> n, state |-> FALSE]
  /\ state = NoState
  /\ fdtab = [f \in {0} |-> Stdin]
  /\ msr = [d \in 0..MaxSockets |-> [r \in Regs |-> {}]]
  /\ written = NoWrite
  /\ handles = {}
  /\ last = NoCall
  /\ cfg = NoCfg
  /\ thr = NoThr

\* raplcap_open_msrs(rc->nsockets, state->fds) on the calloc'ed fds array.
OpenMsrs ==
  /\ last.op = "none"
  /\ LET o == raplcap_open_msrs(fdtab, rc.nsockets, [i \in 0..(rc.nsockets - 1) |-> 0],
                                TRUE, [s \in Sockets |-> TRUE])
     IN /\ state' = [NoState EXCEPT !.fds = o.fds]
        /\ fdtab' = o.tab
        /\ handles' = o.opened
        /\ last' = [NoCall EXCEPT !.op = "open_msrs", !.ret = o.ret, !.errno = o.errno,
                                  !.opened = o.opened]
  /\ UNCHANGED <<ctx, cpuinfo, rc, msr, written, cfg, thr>>

NextDiscovery == OpenMsrs

SpecDiscovery == InitDiscovery /\ [][NextDiscovery]_vars

\* ------------------------------------------------------------ threads
\* Two threads of one process share the session and each runs one modifying
\* call on socket ctx.socket and zone ctx.zone.  A call is two steps: the
\* pread into its local msrval, then the computation and the pwrite.
Threads == {"A", "B"}
SetEnabledOp(v) ==
  [op |-> "set_enabled", enabled |-> v, limit_long |-> NullLimit, limit_short |-> NullLimit]
SetLimitsOp(long, short) ==
  [op |-> "set_limits", enabled |-> 0, limit_long |-> long, limit_short |-> short]
ThreadOps ==
  {SetEnabledOp(0), SetEnabledOp(1),
   SetLimitsOp(Limit(Dbl(75, 2, 0), Dbl(3, 1, 0)), NullLimit),
   SetLimitsOp(NullLimit, Limit(Dbl(50, 1, 0), Dbl(1, 128, 0)))}

\* The switch of a modifying call that computes from an all-zero word
\* instead of the word read.
Modify_fresh(o, zone, msrval) ==
  IF o.op = "set_enabled"
  THEN IF zone \in {"PACKAGE", "PSYS"}
       THEN {set_pkg_platform_enabled({}, o.enabled)}
       ELSE {set_core_uncore_dram_enabled({}, o.enabled)}
  ELSE IF zone \in {"PACKAGE", "PSYS"}
       THEN set_pkg_platform({}, state, o.limit_long, o.limit_short)
       ELSE set_core_uncore_dram({}, state, o.limit_long)

\* The switch of raplcap_set_zone_enabled and of raplcap_set_limits: the
\* words the call may compute from the word it read.
Modify(o, zone, msrval) ==
  IF o.op = "set_enabled"
  THEN IF zone \in {"PACKAGE", "PSYS"}
       THEN {set_pkg_platform_enabled(msrval, o.enabled)}
       ELSE {set_core_uncore_dram_enabled(msrval, o.enabled)}
  ELSE IF zone \in {"PACKAGE", "PSYS"}
       THEN set_pkg_platform(msrval, state, o.limit_long, o.limit_short)
       ELSE set_core_uncore_dram(msrval, state, o.limit_long)

\* The number of register accesses the threads have made.
Clock ==
  Cardinality({t \in Threads : thr[t].rdAt > 0}) + Cardinality({t \in Threads : thr[t].wrAt > 0})

InitThreads ==
  /\ \E s \in Sockets, z \in Zones :
       ctx = [socket |-> s, zone |-> z, limit_long |-> NullLimit,
              limit_short |-> NullLimit, faults |-> "io"]
  /\ cpuinfo = TableOf(MaxSockets)
  /\ rc = [nsockets |-> 0, state |-> FALSE]
  /\ state = NoState
  /\ fdtab = [f \in {0} |-> Stdin]
  /\ \E w \in InitWords :
       msr = [d \in 0..MaxSockets |->
                [r \in Regs |-> IF r = MSR_RAPL_POWER_UNIT THEN {0, 1, 9, 10, 11, 17, 19}
                                ELSE w]]
  /\ written = NoWrite
  /\ handles = {}
  /\ last = NoCall
  /\ cfg = NoCfg
  /\ \E ops \in [Threads -> ThreadOps] :
       thr = [t \in Threads |->
                [pc |-> "read", op |-> ops[t], msrval |-> {}, ret |-> 0,
                 rdAt |-> 0, wrAt |-> 0]]

\* The argument checks and the read_msr_by_offset of the call of thread t.
ThreadRead(t) ==
  /\ thr[t].pc = "read"
  /\ \E rdOk \in Outcome :
       IF ~rc.state \/ ctx.socket >= rc.nsockets
       THEN thr' = [thr EXCEPT ![t].pc = "done", ![t].ret = 0 - 1]
       ELSE LET rd == read_msr_by_offset(fdtab, state.fds[ctx.socket],
                                         zone_to_msr_offset(ctx.zone), rdOk)
            IN thr' = [thr EXCEPT ![t].pc = IF rd.ret # 0 THEN "done" ELSE "write",
                                  ![t].ret = rd.ret,
                                  ![t].msrval = rd.data,
                                  ![t].rdAt = Clock + 1]
  /\ UNCHANGED <<ctx, cpuinfo, rc, state, fdtab, msr, written, handles, last, cfg>>

\* The switch and the write_msr_by_offset of the call of thread t.
ThreadWrite(t) ==
  /\ thr[t].pc = "write"
  /\ \E wrOk \in Outcome, msrval \in Modify(thr[t].op, ctx.zone, thr[t].msrval) :
       LET off == zone_to_msr_offset(ctx.zone)
           wr == write_msr_by_offset(fdtab, state.fds[ctx.socket], off, msrval, wrOk)
       IN /\ thr' = [thr EXCEPT ![t].pc = "done", ![t].ret = wr.ret,
                                ![t].wrAt = Clock + 1]
          /\ msr' = IF wr.ret = 0
                    THEN [msr EXCEPT ![Dev(fdtab, state.fds[ctx.socket])][off] = msrval]
                    ELSE msr
  /\ UNCHANGED <<ctx, cpuinfo, rc, state, fdtab, written, handles, last, cfg>>

NextThreads ==
  \/ RaplcapInit
  \/ \E t \in Threads : ThreadRead(t)
  \/ \E t \in Threads : ThreadWrite(t)

SpecThreads == InitThreads /\ [][NextThreads]_vars

\* ------------------------------------------------------------ rapl-configure
\* flag: the value the build gives RAPL_UNCORE_SUPPORTED, RAPL_DRAM_SUPPORTED
\* or RAPL_PSYS_SUPPORTED (1 when it is not defined).
raplcap_is_zone_supported(socket, zone, flag) ==
  IF ~rc.state \/ socket >= rc.nsockets THEN 0 - 1
  ELSE IF zone \in {"PACKAGE", "CORE"} THEN 1
  ELSE IF zone \in {"UNCORE", "DRAM", "PSYS"} THEN flag
  ELSE 0 - 1

\* The locals of configure_limits and main computed from the context c.
Disable(c) == c.set_enabled # 0 /\ c.enabled = 0
SetAny(c) == ~c.limit_long.null \/ ~c.limit_short.null
IsReadOnly(c) == c.set_enabled = 0 /\ ~SetAny(c)

\* The statement of configure_limits reached after the set-limits statement,
\* after the disable statement, and on entry.
AfterLimits(c) == IF ~Disable(c) THEN "enable" ELSE "destroy"
AfterDisable(c) == IF SetAny(c) THEN "limits" ELSE AfterLimits(c)
OnEntry(c) == IF Disable(c) THEN "disable" ELSE AfterDisable(c)

\* The library call of a statement, appended to the calls of the process.
Called(op, arg, ret) == Append(cfg.calls, [op |-> op, arg |-> arg, ret |-> ret])

\* The command lines: -e absent, -e 0, -e 1 and -e 2, with -s/-w and -S/-W
\* absent or given (an option given alone leaves the other value 0), and at
\* least one of them present.
ConfigurePairs ==
  {<<NullLimit, NullLimit>>,
   <<Limit(Dbl(75, 2, 0), Dbl(3, 1, 0)), NullLimit>>,
   <<Limit(Dbl(4097, 1, 0), Dbl(0, 1, 0)), NullLimit>>,
   <<NullLimit, Limit(Dbl(50, 1, 0), Dbl(0, 1, 0))>>,
   <<Limit(Dbl(75, 2, 0), Dbl(3, 1, 0)), Limit(Dbl(0, 1, 0), Dbl(1, 128, 0))>>}
EnabledArgs == {<<0, 0>>, <<1, 0>>, <<1, 1>>, <<1, 2>>}

InitConfigure ==
  /\ \E s \in 0..MaxSockets, z \in Zones, p \in ConfigurePairs, e \in EnabledArgs :
       /\ ctx = [socket |-> s, zone |-> z, limit_long |-> p[1], limit_short |-> p[2],
                 faults |-> "all", set_enabled |-> e[1], enabled |-> e[2]]
       /\ ~IsReadOnly(ctx)
  /\ cpuinfo = TableOf(MaxSockets)
  /\ rc = [nsockets |-> 0, state |-> FALSE]
  /\ state = NoState
  /\ fdtab = [f \in {0} |-> Stdin]
  /\ \E w \in InitWords \ {{}, 0..63} :
       msr = [d \in 0..MaxSockets |->
                [r \in Regs |-> IF r = MSR_RAPL_POWER_UNIT THEN {0, 1, 9, 10, 11, 17, 19}
                                ELSE w]]
  /\ written = NoWrite
  /\ handles = {}
  /\ last = NoCall
  /\ cfg = [pc |-> "start", ret |-> 0, calls |-> <<>>]
  /\ thr = NoThr

\* main: raplcap_init, and return 1 when it fails.
CfgStart ==
  /\ cfg.pc = "start"
  /\ \E e \in InitEnvs :
       LET r == raplcap_init(fdtab, rc, e.popen1, e.mem, e.popen2, e.openOk, e.rdOk,
                             e.closeErr)
       IN /\ rc' = r.rc
          /\ state' = r.state
          /\ fdtab' = r.tab
          /\ handles' = IF r.ret = 0 THEN r.opened ELSE {}
          /\ last' = [NoCall EXCEPT !.op = "init", !.ret = r.ret, !.errno = r.errno,
                                    !.opened = r.opened, !.closes = r.closes,
                                    !.unit_fd = r.unit_fd]
          /\ cfg' = [pc |-> IF r.ret # 0 THEN "exit" ELSE "supported",
                     ret |-> IF r.ret # 0 THEN 1 ELSE 0,
                     calls |-> Called("init", 0, r.ret)]
  /\ written' = NoWrite
  /\ UNCHANGED <<ctx, cpuinfo, msr, thr>>

\* main: raplcap_is_zone_supported, then enter configure_limits unless the
\* zone is not supported.
CfgSupported ==
  /\ cfg.pc = "supported"
  /\ \E flag \in {0, 1} :
       LET supported == raplcap_is_zone_supported(ctx.socket, ctx.zone, flag)
       IN /\ last' = [NoCall EXCEPT !.op = "is_supported", !.ret = supported,
                                    !.errno = IF supported < 0 THEN "EINVAL" ELSE ""]
          /\ cfg' = [pc |-> IF supported = 0 THEN "destroy" ELSE OnEntry(ctx),
                     ret |-> IF supported = 0 THEN 0 - 1 ELSE 0,
                     calls |-> Called("is_supported", 0, supported)]
  /\ UNCHANGED <<ctx, cpuinfo, rc, state, fdtab, msr, written, handles, thr>>

\* configure_limits: disable zone first, if requested.
CfgDisable ==
  /\ cfg.pc = "disable"
  /\ \E rdOk \in Outcome, wrOk \in Outcome :
       LET r == raplcap_set_zone_enabled(ctx.socket, ctx.zone, 0, rdOk, wrOk)
       IN /\ last' = [Access(r, rdOk, wrOk) EXCEPT !.op = "set_enabled"]
          /\ msr' = Store(r)
          /\ written' = IF r.wrote THEN [op |-> "set_enabled", enabled |-> 0] ELSE written
          /\ cfg' = [pc |-> IF r.ret # 0 THEN "destroy" ELSE AfterDisable(ctx),
                     ret |-> r.ret,
                     calls |-> Called("set_enabled", 0, r.ret)]
  /\ UNCHANGED <<ctx, cpuinfo, rc, state, fdtab, handles, thr>>

\* configure_limits: set limits.
CfgSetLimits ==
  /\ cfg.pc = "limits"
  /\ \E rdOk \in Outcome, wrOk \in Outcome :
       \E r \in raplcap_set_limits(ctx.socket, ctx.zone, ctx.limit_long, ctx.limit_short,
                                   rdOk, wrOk) :
          /\ last' = [Access(r, rdOk, wrOk) EXCEPT !.op = "set_limits"]
          /\ msr' = Store(r)
          /\ written' = IF r.wrote THEN [op |-> "set_limits", enabled |-> 0] ELSE written
          /\ cfg' = [pc |-> IF r.ret # 0 THEN "destroy" ELSE AfterLimits(ctx),
                     ret |-> r.ret,
                     calls |-> Called("set_limits", 0, r.ret)]
  /\ UNCHANGED <<ctx, cpuinfo, rc, state, fdtab, handles, thr>>

\* configure_limits: enable zone (if not disable).
CfgEnable ==
  /\ cfg.pc = "enable"
  /\ \E rdOk \in Outcome, wrOk \in Outcome :
       LET r == raplcap_set_zone_enabled(ctx.socket, ctx.zone, 1, rdOk, wrOk)
       IN /\ last' = [Access(r, rdOk, wrOk) EXCEPT !.op = "set_enabled"]
          /\ msr' = Store(r)
          /\ written' = IF r.wrote THEN [op |-> "set_enabled", enabled |-> 1] ELSE written
          /\ cfg' = [pc |-> "destroy", ret |-> r.ret,
                     calls |-> Called("set_enabled", 1, r.ret)]
  /\ UNCHANGED <<ctx, cpuinfo, rc, state, fdtab, handles, thr>>

\* main: cleanup; the exit status is that of the requested action.
CfgDestroy ==
  /\ cfg.pc = "destroy"
  /\ \E closeErr \in CloseFns :
       LET r == raplcap_destroy(fdtab, rc, state, closeErr)
       IN /\ rc' = r.rc
          /\ state' = r.state
          /\ fdtab' = r.tab
          /\ last' = [NoCall EXCEPT !.op = "destroy", !.ret = r.ret, !.errno = r.errno,
                                    !.opened = handles, !.closes = r.closes]
          /\ cfg' = [pc |-> "exit", ret |-> cfg.ret, calls |-> Called("destroy", 0, r.ret)]
  /\ written' = NoWrite
  /\ handles' = {}
  /\ UNCHANGED <<ctx, cpuinfo, msr, thr>>

NextConfigure ==
  \/ CfgStart
  \/ CfgSupported
  \/ CfgDisable
  \/ CfgSetLimits
  \/ CfgEnable
  \/ CfgDestroy

SpecConfigure == InitConfigure /\ [][NextConfigure]_vars

\* ------------------------------------------------------------ claims
\* x + y on doubles, and x / 2.
DblAdd(x, y) ==
  LET e == IF x.e < y.e THEN x.e ELSE y.e
  IN Dbl(x.n * Pow2(x.e - e) * y.d + y.n * Pow2(y.e - e) * x.d, x.d * y.d, e)
DblHalf(x) == Dbl(x.n, x.d, x.e - 1)

\* The bits of word w in positions lo..hi.
Field(w, lo, hi) == w \cap (lo..hi)
\* The positions where two words differ.
Differ(v, w) == (v \ w) \cup (w \ v)

\* The last call was a get_limits that returned the long-term limit, and the
\* last write of the session was a set_limits given a long-term limit.
GotAfterSet ==
  /\ last.op = "get_limits" /\ last.ret = 0 /\ last.want_long
  /\ written.op = "set_limits" /\ ~ctx.limit_long.null

\* The last call was a set_limits that computed and wrote a word.
SetLimitsWrote == last.op = "set_limits" /\ last.nwrites = 1

\* C1: get_limits after set_limits with long-term watts W > 0 returns watts r
\* with W - power_unit < r <= W, also when W / power_unit needs more than 15
\* bits.
C1_WattsRoundTrip ==
  (GotAfterSet /\ ctx.limit_long.watts.n > 0)
    => /\ DblLeq(last.long.watts, ctx.limit_long.watts)
       /\ DblLess(ctx.limit_long.watts, DblAdd(last.long.watts, state.power_units))

\* C2: get_limits after set_limits with long-term seconds T > 0 returns
\* seconds d with T / 2 < d <= T, for the zones of both classes.
C2_SecondsRoundTrip ==
  (GotAfterSet /\ ctx.limit_long.seconds.n > 0)
    => /\ DblLess(DblHalf(ctx.limit_long.seconds), last.long.seconds)
       /\ DblLeq(last.long.seconds, ctx.limit_long.seconds)

\* C3: in the word set_limits writes, the power field of a supplied limit
\* whose watts are <= 0 and the time exponent field of a supplied limit whose
\* seconds are <= 0 are those of the word read (long-term: bits 0-14 and
\* 17-21; short-term: bits 32-46 and 49-53).
C3_NonPositiveKeepsField ==
  SetLimitsWrote
    => /\ (~ctx.limit_long.null /\ ctx.limit_long.watts.n <= 0)
            => Field(last.after, 0, 14) = Field(last.before, 0, 14)
       /\ (~ctx.limit_long.null /\ ctx.limit_long.seconds.n <= 0)
            => Field(last.after, 17, 21) = Field(last.before, 17, 21)
       /\ (~ctx.limit_short.null /\ ctx.limit_short.watts.n <= 0)
            => Field(last.after, 32, 46) = Field(last.before, 32, 46)
       /\ (~ctx.limit_short.null /\ ctx.limit_short.seconds.n <= 0)
            => Field(last.after, 49, 53) = Field(last.before, 49, 53)

\* A set_limits with watts <= 0 and seconds > 0 kept a non-zero power field
\* while it changed the time exponent.
C3_Witness ==
  /\ SetLimitsWrote /\ last.wrote
  /\ ~ctx.limit_long.null /\ ctx.limit_long.watts.n <= 0 /\ ctx.limit_long.seconds.n > 0
  /\ Field(last.before, 0, 14) # {}
  /\ Field(last.after, 17, 21) # Field(last.before, 17, 21)

C5_OtherLimitUntouched ==
  (SetLimitsWrote /\ ctx.zone \in ClassA)
    => /\ ctx.limit_short.null
            => /\ Field(last.after, 32, 63) = Field(last.before, 32, 63)
               /\ Differ(last.before, last.after) \subseteq (0..14) \cup (17..21)
       /\ ctx.limit_long.null
            => /\ Field(last.after, 0, 31) = Field(last.before, 0, 31)
               /\ Differ(last.before, last.after) \subseteq (32..46) \cup (49..53)

\* A Package or Psys set_limits with only a long-term limit changed the word
\* while the upper half of the word read was populated.
C5_Witness ==
  /\ SetLimitsWrote /\ last.wrote /\ ctx.zone \in ClassA
  /\ ~ctx.limit_long.null /\ ctx.limit_short.null
  /\ last.after # last.before
  /\ Field(last.before, 32, 63) # {}
  /\ 22 \in last.before

ZoneOps == {"is_enabled", "set_enabled", "get_limits", "set_limits"}
ClosedFds(closes) == {closes[i].fd : i \in 1..Len(closes)}
\* The errno of the first close that failed, "" when none did.
RECURSIVE FirstErr(_)
FirstErr(closes) ==
  IF closes = <<>> THEN ""
  ELSE IF Head(closes).err # "" THEN Head(closes).err
  ELSE FirstErr(Tail(closes))

\* C6: when raplcap_init returns failure, every descriptor it opened has been
\* closed and the session holds no state.
C6_InitFailureClosesAll ==
  (last.op = "init" /\ last.ret # 0)
    => /\ last.opened \cap DOMAIN fdtab = {}
       /\ ~rc.state

\* C7: raplcap_destroy calls close on every handle of the session, and when
\* closes fail it fails with the errno of the first failing close.
C7_DestroyFirstError ==
  last.op = "destroy"
    => /\ last.opened \subseteq ClosedFds(last.closes)
       /\ FirstErr(last.closes) # ""
            => (last.ret = 0 - 1 /\ last.errno = FirstErr(last.closes))

\* C8: raplcap_init returns success only if it opened a handle for every
\* socket 0..nsockets-1 and read the unit register through socket 0's handle.
C8_InitSuccessAllOpened ==
  (last.op = "init" /\ last.ret = 0)
    => /\ rc.state /\ rc.nsockets > 0
       /\ \A s \in 0..(rc.nsockets - 1) :
            state.fds[s] \in last.opened /\ fdtab[state.fds[s]].msr
       /\ last.unit_fd = state.fds[0]

\* C9: a zone operation given a socket index >= the socket count or a zone
\* outside the enumeration fails with EINVAL and calls neither pread nor
\* pwrite.
C9_InvalidArgument ==
  (last.op \in ZoneOps /\ (ctx.socket >= rc.nsockets \/ ctx.zone \notin Zones))
    => /\ last.ret = 0 - 1 /\ last.errno = "EINVAL"
       /\ last.nreads = 0 /\ last.nwrites = 0

\* set_limits was called on a valid socket of a live session with a zone
\* outside the enumeration.
C9_Witness ==
  /\ last.op = "set_limits" /\ rc.state /\ ctx.socket < rc.nsockets
  /\ ctx.zone \notin Zones /\ last.ret = 0 - 1

\* C10: every zone operation calls pread at most once and pwrite at most
\* once; a set_limits or set_enabled whose pread fails returns failure
\* without calling pwrite and leaves the registers as they were, and one
\* whose pwrite fails returns failure.
C10_NoWriteAfterFailedRead ==
  [][(last'.op \in ZoneOps)
       => /\ last'.nreads <= 1 /\ last'.nwrites <= 1
          /\ (last'.op \in {"set_limits", "set_enabled"} /\ last'.rd = "fail")
               => (last'.ret = 0 - 1 /\ last'.nwrites = 0 /\ msr' = msr)
          /\ (last'.op \in {"set_limits", "set_enabled"} /\ last'.wr = "fail")
               => (last'.ret = 0 - 1 /\ msr' = msr)
          /\ (last'.op \in {"set_limits", "set_enabled"} /\ last'.ret = 0)
               => (last'.nreads = 1 /\ last'.nwrites = 1)]_vars

\* A set_limits on a live session whose pread failed, and a set_enabled
\* whose pwrite failed.
C10_Witness ==
  /\ rc.state /\ ctx.socket < rc.nsockets /\ ctx.zone \in Zones
  /\ \/ last.op = "set_limits" /\ last.rd = "fail"
     \/ last.op = "set_enabled" /\ last.wr = "fail"

\* The words raplcap_set_limits may write in this state when given the
\* short-term limit argument `short`.
WordsWith(short) ==
  {r.after : r \in {q \in raplcap_set_limits(ctx.socket, ctx.zone, ctx.limit_long, short,
                                             TRUE, TRUE) : q.wrote}}

\* C13: for Core, Uncore and Dram, get_limits leaves the caller's short-term
\* output unwritten, and set_limits given a short-term limit succeeds and
\* writes a word it could have written with no short-term limit.
C13_ShortTermAbsent ==
  [][(ctx.zone \in ClassB)
       => /\ last'.op = "get_limits" => last'.short.null
          /\ (last'.op = "set_limits" /\ rc.state)
               => /\ last'.ret = 0 /\ last'.nwrites = 1
                  /\ WordsWith(ctx.limit_short) = WordsWith(NullLimit)
                  /\ last'.after \in WordsWith(NullLimit)]_vars

\* A Core, Uncore or Dram get_limits asked for the short-term limit after a
\* set_limits that was given one with watts and seconds > 0.
C13_Witness ==
  /\ ctx.zone \in ClassB
  /\ last.op = "get_limits" /\ last.ret = 0 /\ last.want_short
  /\ written.op = "set_limits"
  /\ ~ctx.limit_short.null /\ ctx.limit_short.watts.n > 0 /\ ctx.limit_short.seconds.n > 0

\* The enable and clamp bits of a zone's register.
EnableBits(zone) == IF zone \in ClassA THEN {15, 16, 47, 48} ELSE {15, 16}

\* C15: the word set_enabled(v) writes has each enable and clamp bit of the
\* zone (15, 16, 47, 48 for Package and Psys; 15, 16 for Core, Uncore, Dram)
\* equal to v and every other bit as in the word read.
C15_OnlyEnableBits ==
  (last.op = "set_enabled" /\ last.nwrites = 1)
    => /\ \A b \in EnableBits(ctx.zone) : b \in last.after <=> last.enabled # 0
       /\ Differ(last.before, last.after) \subseteq EnableBits(ctx.zone)

\* set_enabled(0) wrote the word of a Core, Uncore or Dram zone that had
\* bits 15, 47 and 48 set.
C15_Witness ==
  /\ last.op = "set_enabled" /\ last.wrote /\ last.enabled = 0
  /\ ctx.zone \in ClassB
  /\ {15, 47, 48} \subseteq last.before
  /\ last.after # last.before

\* The core numbers the topology source lists for socket s.
CoresOf(s) == {cpuinfo[i].core : i \in {j \in 1..Len(cpuinfo) : cpuinfo[j].socket = s}}
RECURSIVE MinOf(_)
MinOf(S) == LET x == CHOOSE x \in S : TRUE
            IN IF S = {x} THEN x
               ELSE LET m == MinOf(S \ {x}) IN IF x < m THEN x ELSE m

\* C12: raplcap_open_msrs for N expected sockets fails when a record has a
\* physical id >= N or a socket in 0..N-1 has no record; otherwise it
\* succeeds with the handle of each socket opened on the smallest core the
\* table lists for that socket, whatever the order of the records.
C12_Discovery ==
  last.op = "open_msrs"
    => LET N == rc.nsockets
           bad == \/ \E i \in 1..Len(cpuinfo) : cpuinfo[i].socket >= N
                  \/ \E s \in 0..(N - 1) : CoresOf(s) = {}
       IN /\ bad => last.ret = 0 - 1
          /\ ~bad => /\ last.ret = 0
                     /\ \A s \in 0..(N - 1) :
                          /\ state.fds[s] \in last.opened
                          /\ fdtab[state.fds[s]] = MsrOf(MinOf(CoresOf(s)))

\* The table with sockets {0, 1, 0, 1} and cores {4, 5, 0, 1}, where the
\* smallest core of each socket comes last: socket 0 is opened on core 0 and
\* socket 1 on core 1.
C12_Witness ==
  /\ last.op = "open_msrs" /\ last.ret = 0 /\ rc.nsockets = 2
  /\ cpuinfo = <<Cpu(0, 4), Cpu(1, 5), Cpu(0, 0), Cpu(1, 1)>>
  /\ fdtab[state.fds[0]] = MsrOf(0)
  /\ fdtab[state.fds[1]] = MsrOf(1)

\* The position of a library call in the order rapl-configure issues them.
Rank(call) ==
  CASE call.op = "init" -> 0
    [] call.op = "is_supported" -> 1
    [] call.op = "set_enabled" -> IF call.arg = 0 THEN 2 ELSE 4
    [] call.op = "set_limits" -> 3
    [] call.op = "destroy" -> 5
HasCall(op, arg) ==
  \E i \in 1..Len(cfg.calls) : cfg.calls[i].op = op /\ cfg.calls[i].arg = arg
\* What is_enabled would return for the register of the process's zone.
ZoneEnabledNow ==
  LET word == msr[ctx.socket][zone_to_msr_offset(ctx.zone)]
  IN IF ctx.zone \in ClassA THEN is_pkg_platform_enabled(word)
     ELSE is_core_uncore_dram_enabled(word)

C14_Witness ==
  /\ cfg.pc = "exit" /\ cfg.ret = 0
  /\ Disable(ctx) /\ ~ctx.limit_long.null /\ ctx.zone \in ClassA
  /\ Len(cfg.calls) = 5
  /\ cfg.calls[3].op = "set_enabled" /\ cfg.calls[4].op = "set_limits"
  /\ ZoneEnabledNow = 0

\* The register word of the zone the threads work on.
ZoneWord == msr[ctx.socket][zone_to_msr_offset(ctx.zone)]
\* The word carries the modification of operation o: the call would write
\* it back as it is.
Has(o, w) == w \in Modify(o, ctx.zone, w)
\* The bits operation o assigns.
Touches(o) ==
  IF o.op = "set_enabled" THEN EnableBits(ctx.zone)
  ELSE (IF ~o.limit_long.null THEN (0..14) \cup (17..21) ELSE {})
         \cup (IF ctx.zone \in ClassA /\ ~o.limit_short.null
               THEN (32..46) \cup (49..53) ELSE {})
\* The calls of t and u overlapped: neither wrote before the other read.
Overlapped(t, u) == ~(thr[t].wrAt < thr[u].rdAt \/ thr[u].wrAt < thr[t].rdAt)
BothReturnedSuccess == \A t \in Threads : thr[t].pc = "done" /\ thr[t].ret = 0

\* C11: after two concurrent modifying calls that both returned success the
\* word carries the modification of the call that wrote last, and it lacks
\* the modification of the other only when the two calls overlapped (the
\* lost update) or assign the same bits.
C11_LostUpdateNeedsOverlap ==
  BothReturnedSuccess
    => \A t, u \in Threads :
         t # u => /\ thr[t].wrAt > thr[u].wrAt => Has(thr[t].op, ZoneWord)
                  /\ ~Has(thr[t].op, ZoneWord)
                       => (Overlapped(t, u) \/ Touches(thr[t].op) \cap Touches(thr[u].op) # {})

\* The lost update: a set_enabled(1) and a set_limits with a long-term limit
\* both returned success, they assign different bits, and the word lacks the
\* modification of one of them.
C11_Witness ==
  /\ BothReturnedSuccess
  /\ thr["A"].op = SetEnabledOp(1)
  /\ thr["B"].op.op = "set_limits" /\ ~thr["B"].op.limit_long.null
  /\ Touches(thr["A"].op) \cap Touches(thr["B"].op) = {}
  /\ \E t \in Threads : ~Has(thr[t].op, ZoneWord)

====
